---- MODULE Spec2Model ----
(***************************************************************************)
(* Verification model of the rk editor core:                               *)
(*   - the kinematic assembly graph  (rk-core/src/assembly/graph.rs)       *)
(*   - the undo/redo history         (rk-frontend/src/state/history.rs,    *)
(*                                    rk-frontend/src/actions/history.rs)  *)
(*   - the sketch aggregate          (rk-cad/src/sketch/mod.rs)            *)
(*   - the CAD editor: modes, feature history, extrude dialog              *)
(*                                   (rk-frontend/src/actions/sketch,      *)
(*                                    rk-cad/src/feature/mod.rs)           *)
(* Each subsystem has its own specification (SpecAssembly, SpecHistory,    *)
(* SpecSketch, SpecCad), and SpecSketchEdit runs the sketch actions        *)
(* through the dispatcher; the variables of the other subsystems stay at   *)
(* their initial values.                                                   *)
(***************************************************************************)
EXTENDS Integers, Sequences, FiniteSets, TLC

VARIABLES
    \* ---- Assembly (rk-core) ----
    links,              \* HashMap<Uuid, Link>: link id -> [name]
    link_name_index,    \* HashMap<String, Uuid>
    joints,             \* HashMap<Uuid, Joint>: joint id -> [name, parent_link, child_link]
    joint_name_index,   \* HashMap<String, Uuid>
    children,           \* HashMap<Uuid, Vec<(Uuid, Uuid)>>: parent -> <<joint, child>>*
    parent,             \* HashMap<Uuid, (Uuid, Uuid)>: child -> <<joint, parent>>
    root_link,          \* Option<Uuid>: the root link of the assembly
    asmResult,          \* the last Assembly call and what it returned
    \* ---- Editor state and undo history (rk-frontend) ----
    project,            \* AppState.project: the set of parts
    cad,                \* AppState.cad: [editor_mode]
    modified,           \* AppState.modified
    selection,          \* selected_part / selected_collision / editing_joint_id
    undo_stack,         \* UndoHistory.undo_stack
    redo_stack,         \* UndoHistory.redo_stack
    max_history,        \* UndoHistory.max_history
    lastAction,         \* the action dispatched last, with the state it was dispatched in
    trail,              \* scenario record: project/cad after each undoable action
    scen,               \* scenario record: phase and the counts n, k, j
    \* ---- Sketch (rk-cad) ----
    entities,           \* HashMap<Uuid, SketchEntity>
    constraints,        \* HashMap<Uuid, SketchConstraint>
    construction,       \* HashSet<Uuid>
    is_solved,          \* Sketch.is_solved
    skResult,           \* the last Sketch call and what it returned
    \* ---- CAD editor (rk-frontend state/sketch, rk-cad feature history) ----
    editor_mode,        \* CadState.editor_mode, with the SketchModeState
    sketches,           \* FeatureHistory sketches: sketch id -> [entities, is_solved]
    features,           \* FeatureHistory features, in order
    bodies,             \* FeatureHistory bodies: body id -> CadBody
    next_sketch,        \* the id the next Sketch::new gets
    next_feature,       \* the id the next Feature gets
    cadResult,          \* what the last handler did beside its assignments
    \* ---- Forward kinematics (rk-core assembly/transforms.rs) ----
    mimic,              \* Joint.mimic: joint id -> Option<JointMimic>
    world_transform,    \* Link.world_transform: link id -> offset along the axis
    fkResult,           \* the last kinematics call: the position used per joint, in order
    \* ---- Profile extraction (rk-cad sketch/mod.rs) ----
    pfSketch,           \* the sketch extract_profiles is called on
    pfResult,           \* what extract_profiles returned, and the steps it took
    \* ---- Sketch canvas (rk-frontend panels/viewport/sketch_input.rs) ----
    in_progress         \* SketchModeState.in_progress: Option<InProgressEntity>

asmVars == <<links, link_name_index, joints, joint_name_index, children, parent, root_link,
            asmResult>>
histVars == <<project, cad, modified, selection, undo_stack, redo_stack, max_history,
              lastAction, trail, scen>>
skVars == <<entities, constraints, construction, is_solved, skResult>>
cadVars == <<editor_mode, sketches, features, bodies, next_sketch, next_feature, cadResult>>
fkVars == <<mimic, world_transform, fkResult>>
pfVars == <<pfSketch, pfResult>>
toolVars == <<in_progress>>
vars == <<asmVars, histVars, skVars, cadVars, fkVars, pfVars, toolVars>>

(***************************************************************************)
(* Bounds of the model                                                     *)
(***************************************************************************)
NumLinks == 3
NumJoints == 2
NumNames == 1

LinkIds == 1..NumLinks
JointIds == 1..NumJoints
Names == 1..NumNames

(***************************************************************************)
(* HashMap helpers: a map is a function on the set of its keys             *)
(***************************************************************************)
EmptyMap == [x \in {} |-> 0]

\* Option<T>: a sequence of length 0 or 1
None == <<>>
Some(x) == <<x>>

\* HashMap::insert: adds the key or replaces its value
Put(m, k, v) == [x \in (DOMAIN m) \cup {k} |-> IF x = k THEN v ELSE m[x]]

\* HashMap::remove: no effect when the key is absent
Del(m, k) == [x \in (DOMAIN m) \ {k} |-> m[x]]

\* Vec::retain
Retain(s, Keep(_)) == SelectSeq(s, Keep)

(***************************************************************************)
(* Assembly                                                                *)
(***************************************************************************)
Assembly == [links |-> links, link_name_index |-> link_name_index,
             joints |-> joints, joint_name_index |-> joint_name_index,
             children |-> children, parent |-> parent, root_link |-> root_link]

AsmInit ==
    /\ links = EmptyMap
    /\ link_name_index = EmptyMap
    /\ joints = EmptyMap
    /\ joint_name_index = EmptyMap
    /\ children = EmptyMap
    /\ parent = EmptyMap
    /\ root_link = None
    /\ asmResult = [op |-> "new", res |-> "Ok"]

\* Assembly::add_link: inserts (or replaces) the link and indexes its name
add_link(id, name) ==
    /\ link_name_index' = Put(link_name_index, name, id)
    /\ links' = Put(links, id, [name |-> name])
    /\ asmResult' = [op |-> "add_link", res |-> "Ok"]
    /\ UNCHANGED <<joints, joint_name_index, children, parent, root_link>>

\* The loop of would_create_cycle walks the parent chain from parent_id. It has
\* no step limit of its own; the chain of an acyclic parent map visits each
\* link at most once, so `fuel` = NumLinks steps never cuts a walk short.
RECURSIVE CycleWalk(_, _, _, _)
CycleWalk(par, current, child_id, fuel) ==
    IF current = child_id THEN TRUE
    ELSE IF current \in DOMAIN par /\ fuel > 0
         THEN CycleWalk(par, par[current][2], child_id, fuel - 1)
         ELSE FALSE

would_create_cycle_self_only(parent_id, child_id) == parent_id = child_id

would_create_cycle_swapped(parent_id, child_id) ==
    CycleWalk(parent, child_id, parent_id, NumLinks)

would_create_cycle(parent_id, child_id) ==
    CycleWalk(parent, parent_id, child_id, NumLinks)

\* The validation part of Assembly::connect, in the order of the code
ConnectCheckNoParentTest(parent_id, child_id) ==
    IF parent_id \notin DOMAIN links THEN "LinkNotFound"
    ELSE IF child_id \notin DOMAIN links THEN "LinkNotFound"
    ELSE IF would_create_cycle(parent_id, child_id) THEN "WouldCreateCycle"
    ELSE "Ok"

ConnectCheck(parent_id, child_id) ==
    IF parent_id \notin DOMAIN links THEN "LinkNotFound"
    ELSE IF child_id \notin DOMAIN links THEN "LinkNotFound"
    ELSE IF would_create_cycle(parent_id, child_id) THEN "WouldCreateCycle"
    ELSE IF child_id \in DOMAIN parent THEN "AlreadyHasParent"
    ELSE "Ok"

\* Assembly::connect
connect(parent_id, child_id, joint) ==
    LET res == ConnectCheck(parent_id, child_id) IN
    /\ asmResult' = [op |-> "connect", res |-> res]
    /\ IF res # "Ok"
       THEN UNCHANGED <<links, link_name_index, joints, joint_name_index, children, parent,
                        root_link>>
       ELSE /\ joint_name_index' = Put(joint_name_index, joint.name, joint.id)
            /\ joints' = Put(joints, joint.id, joint)
            /\ children' = Put(children, parent_id,
                               (IF parent_id \in DOMAIN children
                                THEN children[parent_id] ELSE <<>>)
                               \o << <<joint.id, child_id>> >>)
            /\ parent' = Put(parent, child_id, <<joint.id, parent_id>>)
            /\ UNCHANGED <<links, link_name_index, root_link>>

\* Assembly::disconnect: the parent entry and the children entry are removed
\* before the joint is looked up
disconnect(child_id) ==
    IF child_id \notin DOMAIN parent
    THEN /\ asmResult' = [op |-> "disconnect", res |-> "NoParent"]
         /\ UNCHANGED <<links, link_name_index, joints, joint_name_index, children, parent,
                        root_link>>
    ELSE LET joint_id == parent[child_id][1]
             parent_id == parent[child_id][2]
             NotChild(e) == e[2] # child_id
         IN
         /\ parent' = Del(parent, child_id)
         /\ children' = IF parent_id \in DOMAIN children
                        THEN Put(children, parent_id, Retain(children[parent_id], NotChild))
                        ELSE children
         /\ IF joint_id \notin DOMAIN joints
            THEN /\ asmResult' = [op |-> "disconnect", res |-> "JointNotFound"]
                 /\ UNCHANGED <<joints, joint_name_index>>
            ELSE /\ joints' = Del(joints, joint_id)
                 /\ joint_name_index' = Del(joint_name_index, joints[joint_id].name)
                 /\ asmResult' = [op |-> "disconnect", res |-> "Ok"]
         /\ UNCHANGED <<links, link_name_index, root_link>>

\* remove_link, first loop: to_remove grows while it is scanned
RECURSIVE CollectDescendants(_, _)
CollectDescendants(to_remove, i) ==
    IF i > Len(to_remove) THEN to_remove
    ELSE LET link_id == to_remove[i]
             kids == IF link_id \in DOMAIN children
                     THEN [n \in 1..Len(children[link_id]) |-> children[link_id][n][2]]
                     ELSE <<>>
         IN CollectDescendants(to_remove \o kids, i + 1)

\* remove_link, second loop: one iteration for the link at to_remove[i]
RemoveOne(a, link_id) ==
    LET a1 == IF link_id \in DOMAIN a.links
              THEN [a EXCEPT !.links = Del(a.links, link_id),
                             !.link_name_index = Del(a.link_name_index, a.links[link_id].name)]
              ELSE a
        a2 == [a1 EXCEPT !.children = Del(a1.children, link_id)]
        a3 == [a2 EXCEPT !.parent = Del(a2.parent, link_id)]
    IN IF link_id \in DOMAIN a2.parent /\ a2.parent[link_id][1] \in DOMAIN a2.joints
       THEN LET joint_id == a2.parent[link_id][1] IN
            [a3 EXCEPT !.joints = Del(a3.joints, joint_id),
                       !.joint_name_index = Del(a3.joint_name_index, a3.joints[joint_id].name)]
       ELSE a3

RECURSIVE RemoveLoop(_, _, _)
RemoveLoop(a, to_remove, i) ==
    IF i > Len(to_remove) THEN a
    ELSE RemoveLoop(RemoveOne(a, to_remove[i]), to_remove, i + 1)

\* remove_link, third loop: children.values_mut() ... retain
CleanChildren(a, to_remove) ==
    LET gone == {to_remove[i] : i \in 1..Len(to_remove)}
        Stays(e) == e[2] \notin gone
    IN [a EXCEPT !.children = [p \in DOMAIN a.children |-> Retain(a.children[p], Stays)]]

\* Assembly::remove_link
remove_link(id) ==
    IF id \notin DOMAIN links
    THEN /\ asmResult' = [op |-> "remove_link", res |-> "LinkNotFound"]
         /\ UNCHANGED <<links, link_name_index, joints, joint_name_index, children, parent,
                        root_link>>
    ELSE LET to_remove == CollectDescendants(<<id>>, 1)
             a == CleanChildren(RemoveLoop(Assembly, to_remove, 1), to_remove)
         IN
         /\ links' = a.links
         /\ link_name_index' = a.link_name_index
         /\ joints' = a.joints
         /\ joint_name_index' = a.joint_name_index
         /\ children' = a.children
         /\ parent' = a.parent
         /\ root_link' = a.root_link
         /\ asmResult' = [op |-> "remove_link", res |-> "Ok"]

\* Joint::fixed, Joint::revolute, ...: a joint value, with the parent and child
\* link it was built for
Joint(id, name, parent_id, child_id) ==
    [id |-> id, name |-> name, parent_link |-> parent_id, child_link |-> child_id]

AddLink ==
    /\ \E id \in LinkIds, name \in Names : add_link(id, name)
    /\ UNCHANGED <<histVars, skVars, cadVars, fkVars, pfVars, toolVars>>
Connect ==
    \* connect does not compare joint.parent_link with parent_id: the joint may
    \* be one built for this pair, or one built for another parent of the same
    \* child (the joint that disconnect returned, connected again)
    /\ \E p \in LinkIds, c \in LinkIds, id \in JointIds, name \in Names,
          built_for \in LinkIds :
            connect(p, c, Joint(id, name, built_for, c))
    /\ UNCHANGED <<histVars, skVars, cadVars, fkVars, pfVars, toolVars>>
Disconnect ==
    /\ \E c \in LinkIds : disconnect(c)
    /\ UNCHANGED <<histVars, skVars, cadVars, fkVars, pfVars, toolVars>>
RemoveLink ==
    /\ \E id \in LinkIds : remove_link(id)
    /\ UNCHANGED <<histVars, skVars, cadVars, fkVars, pfVars, toolVars>>

AsmNext ==
    \/ AddLink
    \/ Connect
    \/ Disconnect
    \/ RemoveLink

(***************************************************************************)
(* Editor state and undo/redo history                                      *)
(***************************************************************************)
NumParts == 2
MaxHistoryCap == 2
DefaultMaxHistory == 50

Parts == 1..NumParts

Snapshot(p, c, d) == [project |-> p, cad |-> c, description |-> d]

\* The actions of this model (AppAction)
CreatePrimitiveAction(p) == [kind |-> "CreatePrimitive", arg |-> p]
SelectPartAction(p) == [kind |-> "SelectPart", arg |-> p]
BeginPlaneSelectionAction == [kind |-> "BeginPlaneSelection", arg |-> None]
CancelPlaneSelectionAction == [kind |-> "CancelPlaneSelection", arg |-> None]
UpdateJointPositionAction(q) == [kind |-> "UpdateJointPosition", arg |-> q]
NewProjectAction == [kind |-> "NewProject", arg |-> None]
CreateSketchAction == [kind |-> "CreateSketch", arg |-> None]
AddEntityAction(id) == [kind |-> "AddEntity", arg |-> id]
AddConstraintAction(id) == [kind |-> "AddConstraint", arg |-> id]
UndoAction == [kind |-> "Undo", arg |-> None]
RedoAction == [kind |-> "Redo", arg |-> None]

\* AppAction::is_undoable
is_undoable(action) ==
    IF action.kind \in {"SelectPart", "SelectCollision", "SetEditingJoint"} THEN FALSE
    ELSE IF action.kind \in {"NewProject", "LoadProject", "LoadProjectBytes"} THEN FALSE
    ELSE IF action.kind = "UpdateJointPosition" THEN FALSE
    ELSE IF action.kind \in {"Undo", "Redo"} THEN FALSE
    ELSE TRUE

\* AppAction::description
description(action) ==
    CASE action.kind = "CreatePrimitive" -> "Create Primitive"
      [] action.kind = "SelectPart" -> "Select Part"
      [] action.kind = "UpdateJointPosition" -> "Update Joint Position"
      [] action.kind = "NewProject" -> "New Project"
      [] action.kind \in {"BeginPlaneSelection", "CancelPlaneSelection", "CreateSketch",
                          "AddEntity", "AddConstraint"} -> "Sketch Action"
      [] action.kind = "Undo" -> "Undo"
      [] action.kind = "Redo" -> "Redo"

\* UndoHistory::new
HistoryNew(mh) ==
    /\ undo_stack = <<>>
    /\ redo_stack = <<>>
    /\ max_history = mh

\* UndoHistory::save_state, as the new [undo, redo] stacks
save_state_no_trim(us, rs, mh, p, c, d) ==
    [undo |-> Append(us, Snapshot(p, c, d)), redo |-> <<>>]

save_state_keep_redo(us, rs, mh, p, c, d) ==
    LET pushed == Append(us, Snapshot(p, c, d)) IN
    [undo |-> IF Len(pushed) > mh THEN Tail(pushed) ELSE pushed, redo |-> rs]

save_state(us, rs, mh, p, c, d) ==
    LET pushed == Append(us, Snapshot(p, c, d)) IN
    [undo |-> IF Len(pushed) > mh THEN Tail(pushed) ELSE pushed, redo |-> <<>>]

\* Vec::pop: the vector without its last element
Front(s) == SubSeq(s, 1, Len(s) - 1)
Last(s) == s[Len(s)]

\* UndoHistory::undo, as the new stacks and the Option<UndoSnapshot> returned
\* (a sequence of length 0 or 1)
undo_pop_front(us, rs, current_project, current_cad) ==
    IF us # <<>>
    THEN [undo |-> Tail(us),
          redo |-> Append(rs, Snapshot(current_project, current_cad, Head(us).description)),
          snapshot |-> <<Head(us)>>]
    ELSE [undo |-> us, redo |-> rs, snapshot |-> <<>>]

undo_push_previous(us, rs, current_project, current_cad) ==
    IF us # <<>>
    THEN [undo |-> Front(us), redo |-> Append(rs, Last(us)), snapshot |-> <<Last(us)>>]
    ELSE [undo |-> us, redo |-> rs, snapshot |-> <<>>]

undo(us, rs, current_project, current_cad) ==
    IF us # <<>>
    THEN LET previous == Last(us) IN
         [undo |-> Front(us),
          redo |-> Append(rs, Snapshot(current_project, current_cad, previous.description)),
          snapshot |-> <<previous>>]
    ELSE [undo |-> us, redo |-> rs, snapshot |-> <<>>]

\* UndoHistory::redo
redo(us, rs, current_project, current_cad) ==
    IF rs # <<>>
    THEN LET next == Last(rs) IN
         [undo |-> Append(us, Snapshot(current_project, current_cad, next.description)),
          redo |-> Front(rs),
          snapshot |-> <<next>>]
    ELSE [undo |-> us, redo |-> rs, snapshot |-> <<>>]

\* UndoHistory::can_undo, UndoHistory::can_redo
can_undo == undo_stack # <<>>
can_redo == redo_stack # <<>>

NoSelection == [selected_part |-> None, selected_collision |-> None, editing_joint_id |-> None]

\* Project::default: no parts; the one joint slider of the model at rest
NoProject == [parts |-> {}, joint_position |-> "rest"]
\* CadState::default
NoCad == [editor_mode |-> "Assembly"]

HistInitWith(mh) ==
    /\ project = NoProject
    /\ cad = NoCad
    /\ modified = FALSE
    /\ selection = NoSelection
    /\ HistoryNew(mh)
    /\ lastAction = [kind |-> "none", undoable |-> FALSE, description |-> "",
                     project |-> NoProject, cad |-> NoCad, full |-> FALSE,
                     hadRedo |-> FALSE, prevUndoable |-> FALSE]
    /\ trail = << [project |-> NoProject, cad |-> NoCad] >>
    /\ scen = [phase |-> "act", n |-> 0, k |-> 0, j |-> 0]

HistInit == \E mh \in 1..MaxHistoryCap : HistInitWith(mh)

ScenOff == [phase |-> "off", n |-> 0, k |-> 0, j |-> 0]

\* What the dispatcher records about the action it is about to run
Dispatched(action) ==
    [kind |-> action.kind, undoable |-> is_undoable(action),
     description |-> description(action),
     project |-> IF is_undoable(action) THEN project ELSE NoProject,
     cad |-> IF is_undoable(action) THEN cad ELSE NoCad,
     full |-> is_undoable(action) /\ Len(undo_stack) >= max_history,
     hadRedo |-> is_undoable(action) /\ can_redo,
     prevUndoable |-> lastAction.undoable]

\* The scenario "n undoable actions, then k Undos, then j Redos" (n within the
\* cap, k <= n, j <= k); any other sequence switches the record off.
ScenAfterAction(post) ==
    IF scen.phase = "act" /\ scen.n < max_history
    THEN /\ scen' = [scen EXCEPT !.n = @ + 1]
         /\ trail' = Append(trail, post)
    ELSE /\ scen' = ScenOff
         /\ trail' = <<>>

ScenAfterUndo ==
    IF scen.phase \in {"act", "undo"} /\ scen.k < scen.n
    THEN /\ scen' = [scen EXCEPT !.phase = "undo", !.k = @ + 1]
         /\ trail' = trail
    ELSE /\ scen' = ScenOff
         /\ trail' = <<>>

ScenAfterRedo ==
    IF scen.phase \in {"undo", "redo"} /\ scen.j < scen.k
    THEN /\ scen' = [scen EXCEPT !.phase = "redo", !.j = @ + 1]
         /\ trail' = trail
    ELSE /\ scen' = ScenOff
         /\ trail' = <<>>

\* The dispatcher, for an undoable action: snapshot first, then the handler
SaveBefore(action) ==
    LET h == save_state(undo_stack, redo_stack, max_history, project, cad, description(action))
    IN /\ undo_stack' = h.undo
       /\ redo_stack' = h.redo
       /\ lastAction' = Dispatched(action)
       /\ UNCHANGED max_history

\* CreatePrimitive: a new part is inserted in the project
DispatchCreatePrimitive(p) ==
    /\ SaveBefore(CreatePrimitiveAction(p))
    /\ project' = [project EXCEPT !.parts = @ \cup {p}]
    /\ UNCHANGED <<cad, modified, selection>>
    /\ ScenAfterAction([project |-> project', cad |-> cad'])

\* handle_sketch_action, SketchAction::BeginPlaneSelection
DispatchBeginPlaneSelection ==
    /\ SaveBefore(BeginPlaneSelectionAction)
    /\ cad' = [cad EXCEPT !.editor_mode = "PlaneSelection"]
    /\ UNCHANGED <<project, modified, selection>>
    /\ ScenAfterAction([project |-> project', cad |-> cad'])

\* handle_sketch_action, SketchAction::CancelPlaneSelection
DispatchCancelPlaneSelection ==
    /\ SaveBefore(CancelPlaneSelectionAction)
    /\ cad' = [cad EXCEPT !.editor_mode = "Assembly"]
    /\ UNCHANGED <<project, modified, selection>>
    /\ ScenAfterAction([project |-> project', cad |-> cad'])

\* SelectPart: not undoable, so the dispatcher saves nothing
DispatchSelectPart(p) ==
    /\ lastAction' = Dispatched(SelectPartAction(p))
    /\ selection' = [selection EXCEPT !.selected_part = p]
    /\ UNCHANGED <<project, cad, modified, undo_stack, redo_stack, max_history, trail, scen>>

SaveWhateverTheAction(action) == SaveBefore(action)

\* The dispatcher's first step for any action: a snapshot when the action is
\* undoable, nothing otherwise
SaveIfUndoable(action) ==
    IF is_undoable(action)
    THEN SaveBefore(action)
    ELSE /\ lastAction' = Dispatched(action)
         /\ UNCHANGED <<undo_stack, redo_stack, max_history>>

\* The slider positions of the one joint of the model
JointPositions == {"rest", "turned"}

\* UpdateJointPosition: the real-time slider update writes the position
DispatchUpdateJointPosition(q) ==
    /\ SaveIfUndoable(UpdateJointPositionAction(q))
    /\ project' = [project EXCEPT !.joint_position = q]
    /\ UNCHANGED <<cad, modified, selection>>
    /\ scen' = ScenOff
    /\ trail' = <<>>

\* NewProject: the project and the CAD state are replaced by fresh ones
DispatchNewProject ==
    /\ SaveIfUndoable(NewProjectAction)
    /\ project' = NoProject
    /\ cad' = NoCad
    /\ modified' = FALSE
    /\ selection' = NoSelection
    /\ scen' = ScenOff
    /\ trail' = <<>>

\* The restore that handle_undo and handle_redo share
Restore(h) ==
    /\ undo_stack' = h.undo
    /\ redo_stack' = h.redo
    /\ IF h.snapshot # <<>>
       THEN /\ project' = h.snapshot[1].project
            /\ cad' = h.snapshot[1].cad
            /\ modified' = TRUE
            /\ selection' = NoSelection
       ELSE UNCHANGED <<project, cad, modified, selection>>
    /\ UNCHANGED max_history

\* handle_undo
handle_undo ==
    /\ lastAction' = Dispatched(UndoAction)
    /\ Restore(undo(undo_stack, redo_stack, project, cad))
    /\ ScenAfterUndo

\* handle_redo
handle_redo ==
    /\ lastAction' = Dispatched(RedoAction)
    /\ Restore(redo(undo_stack, redo_stack, project, cad))
    /\ ScenAfterRedo

CreatePrimitive ==
    /\ \E p \in Parts \ project.parts : DispatchCreatePrimitive(p)
    /\ UNCHANGED <<asmVars, skVars, cadVars, fkVars, pfVars, toolVars>>
SelectPart ==
    /\ \E p \in {None} \cup {Some(q) : q \in project.parts} : DispatchSelectPart(p)
    /\ UNCHANGED <<asmVars, skVars, cadVars, fkVars, pfVars, toolVars>>
UpdateJointPosition ==
    /\ \E q \in JointPositions \ {project.joint_position} : DispatchUpdateJointPosition(q)
    /\ UNCHANGED <<asmVars, skVars, cadVars, fkVars, pfVars, toolVars>>
NewProject == DispatchNewProject /\ UNCHANGED <<asmVars, skVars, cadVars, fkVars, pfVars, toolVars>>
BeginPlaneSelection == DispatchBeginPlaneSelection /\ UNCHANGED <<asmVars, skVars, cadVars, fkVars, pfVars, toolVars>>
CancelPlaneSelection == DispatchCancelPlaneSelection /\ UNCHANGED <<asmVars, skVars, cadVars, fkVars, pfVars, toolVars>>
Undo == handle_undo /\ UNCHANGED <<asmVars, skVars, cadVars, fkVars, pfVars, toolVars>>
Redo == handle_redo /\ UNCHANGED <<asmVars, skVars, cadVars, fkVars, pfVars, toolVars>>

HistNext ==
    \/ CreatePrimitive
    \/ SelectPart
    \/ UpdateJointPosition
    \/ NewProject
    \/ BeginPlaneSelection
    \/ CancelPlaneSelection
    \/ Undo
    \/ Redo

(***************************************************************************)
(* Sketch                                                                  *)
(***************************************************************************)
NumEntities == 2
NumConstraints == 1

EntityIds == 1..NumEntities
ConstraintIds == 1..NumConstraints

\* SketchEntity: the variants the sketch tools create. `points` is the list
\* that referenced_points() returns (positions and radii are left out).
Point(id) == [kind |-> "Point", id |-> id, points |-> <<>>]
Line(id, start, end) == [kind |-> "Line", id |-> id, points |-> <<start, end>>]
Circle(id, center) == [kind |-> "Circle", id |-> id, points |-> <<center>>]

\* SketchEntity::is_point
is_point(e) == e.kind = "Point"

\* SketchEntity::referenced_points, as a set
referenced_points(e) == {e.points[i] : i \in 1..Len(e.points)}

\* SketchConstraint: an id and the entities it is about (one for Fixed,
\* Horizontal, Vertical, Radius...; two for Coincident, Parallel, Distance...)
Constraint(id, refs) == [id |-> id, refs |-> refs]

\* SketchConstraint::referenced_entities
referenced_entities(c) == c.refs

\* SketchConstraint::references_entity
references_entity(c, id) == id \in referenced_entities(c)

SkInit ==
    /\ entities = EmptyMap
    /\ constraints = EmptyMap
    /\ construction = {}
    /\ is_solved = TRUE
    /\ skResult = [op |-> "new", res |-> "Ok", cascaded |-> 0]

\* Sketch::add_entity
add_entity(entity) ==
    /\ entities' = Put(entities, entity.id, entity)
    /\ is_solved' = FALSE
    /\ skResult' = [op |-> "add_entity", res |-> "Ok", cascaded |-> 0]
    /\ UNCHANGED <<constraints, construction>>

\* Sketch::remove_entity, the constraints it collects for removal
related_constraints_none(id) == {}

related_constraints(id) ==
    {cid \in DOMAIN constraints : references_entity(constraints[cid], id)}

\* Sketch::remove_entity
remove_entity(id) ==
    /\ constraints' = [cid \in (DOMAIN constraints) \ related_constraints(id) |-> constraints[cid]]
    /\ construction' = construction \ {id}
    /\ is_solved' = FALSE
    /\ entities' = Del(entities, id)
    /\ skResult' = [op |-> "remove_entity",
                    res |-> IF id \in DOMAIN entities THEN "Some" ELSE "None",
                    cascaded |-> Cardinality(related_constraints(id))]

\* Sketch::add_constraint, the validation loop
missing_entities(c) == {id \in referenced_entities(c) : id \notin DOMAIN entities}

\* Sketch::add_constraint
add_constraint(c) ==
    IF missing_entities(c) # {}
    THEN /\ skResult' = [op |-> "add_constraint", res |-> "EntityNotFound", cascaded |-> 0]
         /\ UNCHANGED <<entities, constraints, construction, is_solved>>
    ELSE /\ constraints' = Put(constraints, c.id, c)
         /\ is_solved' = FALSE
         /\ skResult' = [op |-> "add_constraint", res |-> "Ok", cascaded |-> 0]
         /\ UNCHANGED <<entities, construction>>

\* Sketch::remove_constraint
remove_constraint(id) ==
    /\ is_solved' = FALSE
    /\ constraints' = Del(constraints, id)
    /\ skResult' = [op |-> "remove_constraint",
                    res |-> IF id \in DOMAIN constraints THEN "Some" ELSE "None",
                    cascaded |-> 0]
    /\ UNCHANGED <<entities, construction>>

\* The point entities present: what the sketch tools and add_line, add_circle
\* pass as the endpoints and centers of new curves
PresentPoints == {id \in DOMAIN entities : is_point(entities[id])}

NewEntities ==
    {Point(id) : id \in EntityIds}
    \cup {Line(id, a, b) : id \in EntityIds, a \in PresentPoints, b \in PresentPoints}
    \cup {Circle(id, c) : id \in EntityIds, c \in PresentPoints}

NewConstraints ==
    {Constraint(id, refs) : id \in ConstraintIds,
                            refs \in {r \in SUBSET EntityIds : Cardinality(r) \in {1, 2}}}

AddEntity ==
    /\ \E e \in NewEntities : add_entity(e)
    /\ UNCHANGED <<asmVars, histVars, cadVars, fkVars, pfVars, toolVars>>
RemoveEntity ==
    /\ \E id \in EntityIds : remove_entity(id)
    /\ UNCHANGED <<asmVars, histVars, cadVars, fkVars, pfVars, toolVars>>
AddConstraint ==
    /\ \E c \in NewConstraints : add_constraint(c)
    /\ UNCHANGED <<asmVars, histVars, cadVars, fkVars, pfVars, toolVars>>
RemoveConstraint ==
    /\ \E id \in ConstraintIds : remove_constraint(id)
    /\ UNCHANGED <<asmVars, histVars, cadVars, fkVars, pfVars, toolVars>>

SkNext ==
    \/ AddEntity
    \/ RemoveEntity
    \/ AddConstraint
    \/ RemoveConstraint

(***************************************************************************)
(* CAD editor: editor mode, sketches, feature history, extrude dialog      *)
(* (rk-frontend/src/actions/sketch, rk-frontend/src/state/sketch,          *)
(*  rk-cad/src/feature/mod.rs, rk-cad/src/kernel/truck.rs)                 *)
(* The handlers are modelled on the full CadState; a sketch is reduced to  *)
(* its non-construction circles (each one closed profile) and carries no   *)
(* constraints.                                                            *)
(***************************************************************************)
NumSketches == 2
NumFeatures == 2
NumCircles == 1
MaxOpenSketches == 1

SketchIds == 1..NumSketches
FeatureIds == 1..NumFeatures
CircleIds == 1..NumCircles
BooleanOps == {"New", "Join", "Cut"}

\* Uuid::nil()
NilId == 0

\* ExtrudeDialogState::default; profiles is the number of extracted profiles
DefaultExtrudeDialog ==
    [open |-> FALSE, sketch_id |-> NilId, profiles |-> 0,
     selected_profile_indices |-> {}, error_message |-> None,
     boolean_op |-> "New", target_body |-> None]

\* EditorMode::Assembly, EditorMode::PlaneSelection(default), and
\* EditorMode::Sketch(SketchModeState::new(sketch_id)); the modes without a
\* SketchModeState carry its default so that all modes are one record shape
AssemblyMode ==
    [kind |-> "Assembly", active_sketch |-> NilId, selected_entities |-> {},
     extrude_dialog |-> DefaultExtrudeDialog]
PlaneSelectionMode ==
    [kind |-> "PlaneSelection", active_sketch |-> NilId, selected_entities |-> {},
     extrude_dialog |-> DefaultExtrudeDialog]
SketchMode(sketch_id) ==
    [kind |-> "Sketch", active_sketch |-> sketch_id, selected_entities |-> {},
     extrude_dialog |-> DefaultExtrudeDialog]

\* Sketch::new
NewSketch == [entities |-> {}, is_solved |-> TRUE]

\* Sketch::solve on a sketch without constraints: the solver reports
\* UnderConstrained or FullyConstrained, is_solved becomes true
solve(sk) == [sk EXCEPT !.is_solved = TRUE]

\* Sketch::extract_profiles, the number of profiles: one per circle
extract_profiles(sk) == Cardinality(sk.entities)

\* ExtrudeDialogState::open_for_sketch followed by set_profiles
open_for_sketch(sketch_id, count) ==
    [open |-> TRUE, sketch_id |-> sketch_id, profiles |-> count,
     selected_profile_indices |-> 0..(count - 1), error_message |-> None,
     boolean_op |-> "New", target_body |-> None]

\* ExtrudeDialogState::toggle_profile
toggle_profile(d, index) ==
    IF index < d.profiles
    THEN [d EXCEPT !.selected_profile_indices =
                      IF index \in @ THEN @ \ {index} ELSE @ \cup {index}]
    ELSE d

\* ExtrudeDialogState::close
close(d) ==
    [d EXCEPT !.open = FALSE, !.profiles = 0, !.selected_profile_indices = {},
              !.error_message = None]

\* Feature::extrude_with_boolean
extrude_with_boolean(id, sketch_id, boolean_op, target_body) ==
    [id |-> id, sketch_id |-> sketch_id, boolean_op |-> boolean_op,
     target_body |-> target_body, suppressed |-> FALSE]

\* TruckKernel::boolean on two stored solids: Subtract is not supported
TruckBoolean(op) == IF op = "Cut" THEN "Err" ELSE "Ok"

\* Feature::execute for an Extrude feature
execute(f, sks, existing_bodies) ==
    IF f.suppressed THEN "Err"
    ELSE IF f.sketch_id \notin DOMAIN sks THEN "Err"
    ELSE IF extract_profiles(sks[f.sketch_id]) = 0 THEN "Err"
    ELSE IF /\ f.boolean_op # "New"
            /\ f.target_body # None
            /\ f.target_body[1] \in DOMAIN existing_bodies
         THEN TruckBoolean(f.boolean_op)
         ELSE "Ok"

\* CadBody built from a feature; the body of a feature keeps its id across
\* rebuilds (the id of the feature stands for it)
BodyOf(f) == [name |-> "Extrude", source_feature |-> Some(f.id)]

NoReport == [ran |-> FALSE, features |-> <<>>, bodies |-> EmptyMap,
             succeeded |-> {}, failed |-> {}]

\* a rebuild that stops at the first feature that fails
RECURSIVE RebuildUntilFailure(_, _, _, _)
RebuildUntilFailure(fs, sks, i, acc) ==
    IF i > Len(fs) THEN acc
    ELSE LET f == fs[i] IN
         IF f.suppressed THEN RebuildUntilFailure(fs, sks, i + 1, acc)
         ELSE IF execute(f, sks, acc.bodies) = "Ok"
              THEN RebuildUntilFailure(fs, sks, i + 1,
                       [acc EXCEPT !.bodies = Put(@, f.id, BodyOf(f)),
                                   !.succeeded = @ \cup {f.id}])
              ELSE [acc EXCEPT !.failed = @ \cup {f.id}]

\* FeatureHistory::rebuild, the loop over the features from position i on;
\* acc holds the bodies built so far and the per-feature outcome
RECURSIVE RebuildFrom(_, _, _, _)
RebuildFrom(fs, sks, i, acc) ==
    IF i > Len(fs) THEN acc
    ELSE LET f == fs[i] IN
         IF f.suppressed THEN RebuildFrom(fs, sks, i + 1, acc)
         ELSE IF execute(f, sks, acc.bodies) = "Ok"
              THEN RebuildFrom(fs, sks, i + 1,
                       [acc EXCEPT !.bodies = Put(@, f.id, BodyOf(f)),
                                   !.succeeded = @ \cup {f.id}])
              ELSE RebuildFrom(fs, sks, i + 1, [acc EXCEPT !.failed = @ \cup {f.id}])

\* FeatureHistory::rebuild: clears the bodies, then runs every feature
rebuild(fs, sks) ==
    RebuildFrom(fs, sks, 1, [NoReport EXCEPT !.ran = TRUE, !.features = fs])

\* FeatureHistory::remove_feature
remove_feature(fs, id) == SelectSeq(fs, LAMBDA f : f.id # id)

FeatureIdsOf(fs) == {fs[i].id : i \in 1..Len(fs)}

\* what a handler did beside its assignments: the sketches solve() ran on,
\* the report of the rebuild it ran, the feature it created
CadResult(solved, report, new_feature) ==
    [solved |-> solved, report |-> report, new_feature |-> new_feature]

CadInit ==
    /\ editor_mode = AssemblyMode
    /\ sketches = EmptyMap
    /\ features = <<>>
    /\ bodies = EmptyMap
    /\ next_sketch = 1
    /\ next_feature = 1
    /\ cadResult = CadResult({}, NoReport, NilId)

\* CadState::exit_sketch_mode, its effect on the sketches and the sketches
\* it solves
ExitSolved(em, sks) ==
    IF em.kind = "Sketch" /\ em.active_sketch \in DOMAIN sks
    THEN {em.active_sketch} ELSE {}
SolveAll(sks, ids) ==
    [s \in DOMAIN sks |-> IF s \in ids THEN solve(sks[s]) ELSE sks[s]]

\* CadState::exit_sketch_mode
exit_sketch_mode ==
    /\ sketches' = SolveAll(sketches, ExitSolved(editor_mode, sketches))
    /\ editor_mode' = AssemblyMode
    /\ cadResult' = CadResult(ExitSolved(editor_mode, sketches), NoReport, NilId)

\* SketchAction::BeginPlaneSelection
handle_begin_plane_selection ==
    /\ editor_mode' = PlaneSelectionMode
    /\ cadResult' = CadResult({}, NoReport, NilId)
    /\ UNCHANGED <<sketches, features, bodies, next_sketch, next_feature, modified>>

\* SketchAction::CancelPlaneSelection
handle_cancel_plane_selection ==
    /\ editor_mode' = AssemblyMode
    /\ cadResult' = CadResult({}, NoReport, NilId)
    /\ UNCHANGED <<sketches, features, bodies, next_sketch, next_feature, modified>>

\* CadState::create_sketch followed by CadState::enter_sketch_mode: the body
\* of SelectPlaneAndCreateSketch and of CreateSketch
create_and_enter ==
    /\ next_sketch <= NumSketches
    /\ Cardinality(DOMAIN sketches) < MaxOpenSketches
    /\ sketches' = Put(sketches, next_sketch, NewSketch)
    /\ next_sketch' = next_sketch + 1
    /\ editor_mode' = SketchMode(next_sketch)
    /\ cadResult' = CadResult({}, NoReport, NilId)
    /\ UNCHANGED <<features, bodies, next_feature, modified>>

\* SketchAction::EditSketch
handle_edit_sketch(sketch_id) ==
    /\ editor_mode' = IF sketch_id \in DOMAIN sketches
                      THEN SketchMode(sketch_id) ELSE editor_mode
    /\ cadResult' = CadResult({}, NoReport, NilId)
    /\ UNCHANGED <<sketches, features, bodies, next_sketch, next_feature, modified>>

\* SketchAction::ExitSketchMode
handle_exit_sketch_mode ==
    /\ exit_sketch_mode
    /\ UNCHANGED <<features, bodies, next_sketch, next_feature, modified>>

\* SketchModeState::select_entity, called by the sketch canvas on a click
select_entity(id) ==
    /\ editor_mode.kind = "Sketch"
    /\ editor_mode' = [editor_mode EXCEPT !.selected_entities = @ \cup {id}]
    /\ cadResult' = CadResult({}, NoReport, NilId)
    /\ UNCHANGED <<sketches, features, bodies, next_sketch, next_feature, modified>>

\* SketchAction::AddEntity with a circle
handle_add_entity(id) ==
    /\ sketches' = IF editor_mode.kind = "Sketch" /\ editor_mode.active_sketch \in DOMAIN sketches
                   THEN [sketches EXCEPT ![editor_mode.active_sketch] =
                            [entities |-> @.entities \cup {id}, is_solved |-> FALSE]]
                   ELSE sketches
    /\ cadResult' = CadResult({}, NoReport, NilId)
    /\ UNCHANGED <<editor_mode, features, bodies, next_sketch, next_feature, modified>>

\* SketchAction::DeleteSelected
handle_delete_selected ==
    /\ IF editor_mode.kind # "Sketch"
       THEN UNCHANGED <<sketches, editor_mode>>
       ELSE /\ sketches' =
                 IF editor_mode.active_sketch \in DOMAIN sketches
                 THEN [sketches EXCEPT ![editor_mode.active_sketch] =
                          IF editor_mode.selected_entities = {} THEN @
                          ELSE [entities |-> @.entities \ editor_mode.selected_entities,
                                is_solved |-> FALSE]]
                 ELSE sketches
            /\ editor_mode' = [editor_mode EXCEPT !.selected_entities = {}]
    /\ cadResult' = CadResult({}, NoReport, NilId)
    /\ UNCHANGED <<features, bodies, next_sketch, next_feature, modified>>

\* SketchAction::DeleteSketch
handle_delete_sketch(sketch_id) ==
    LET exits == editor_mode.kind = "Sketch" /\ editor_mode.active_sketch = sketch_id
        solved == IF exits THEN ExitSolved(editor_mode, sketches) ELSE {}
    IN /\ editor_mode' = IF exits THEN AssemblyMode ELSE editor_mode
       /\ sketches' = Del(SolveAll(sketches, solved), sketch_id)
       /\ modified' = IF sketch_id \in DOMAIN sketches THEN TRUE ELSE modified
       /\ cadResult' = CadResult(solved, NoReport, NilId)
       /\ UNCHANGED <<features, bodies, next_sketch, next_feature>>

\* handle_show_extrude_dialog
handle_show_extrude_dialog ==
    LET sketch_id == editor_mode.active_sketch
        found == sketch_id \in DOMAIN sketches
        solved == IF found THEN {sketch_id} ELSE {}
        sks == SolveAll(sketches, solved)
        count == IF found THEN extract_profiles(sks[sketch_id]) ELSE 0
    IN /\ sketches' = sks
       /\ editor_mode' = IF editor_mode.kind = "Sketch"
                         THEN [editor_mode EXCEPT !.extrude_dialog =
                                                     open_for_sketch(sketch_id, count)]
                         ELSE editor_mode
       /\ cadResult' = CadResult(solved, NoReport, NilId)
       /\ UNCHANGED <<features, bodies, next_sketch, next_feature, modified>>

\* handle_update_extrude_boolean_op
handle_update_extrude_boolean_op(boolean_op) ==
    /\ editor_mode' =
         IF editor_mode.kind = "Sketch"
         THEN [editor_mode EXCEPT !.extrude_dialog.boolean_op = boolean_op,
                                  !.extrude_dialog.target_body =
                                      IF boolean_op = "New" THEN None ELSE @]
         ELSE editor_mode
    /\ cadResult' = CadResult({}, NoReport, NilId)
    /\ UNCHANGED <<sketches, features, bodies, next_sketch, next_feature, modified>>

\* handle_update_extrude_target_body
handle_update_extrude_target_body(target_body) ==
    /\ editor_mode' =
         IF editor_mode.kind = "Sketch"
         THEN [editor_mode EXCEPT !.extrude_dialog.target_body = target_body]
         ELSE editor_mode
    /\ cadResult' = CadResult({}, NoReport, NilId)
    /\ UNCHANGED <<sketches, features, bodies, next_sketch, next_feature, modified>>

\* handle_toggle_extrude_profile
handle_toggle_extrude_profile(profile_index) ==
    /\ editor_mode' =
         IF editor_mode.kind = "Sketch"
         THEN [editor_mode EXCEPT !.extrude_dialog = toggle_profile(@, profile_index)]
         ELSE editor_mode
    /\ cadResult' = CadResult({}, NoReport, NilId)
    /\ UNCHANGED <<sketches, features, bodies, next_sketch, next_feature, modified>>

\* SketchAction::CancelExtrudeDialog
handle_cancel_extrude_dialog ==
    /\ editor_mode' =
         IF editor_mode.kind = "Sketch"
         THEN [editor_mode EXCEPT !.extrude_dialog = close(@)]
         ELSE editor_mode
    /\ cadResult' = CadResult({}, NoReport, NilId)
    /\ UNCHANGED <<sketches, features, bodies, next_sketch, next_feature, modified>>

\* handle_execute_extrude, the error message it picks when no body was added
ExtrudeErrorMessage(boolean_op) ==
    IF boolean_op = "Cut" THEN "Cut operation is not supported by Truck kernel"
    ELSE IF boolean_op # "New" THEN "Boolean operation failed"
    ELSE "Extrude failed: No body was created"

\* handle_execute_extrude
handle_execute_extrude ==
    IF editor_mode.kind # "Sketch"
    THEN /\ cadResult' = CadResult({}, NoReport, NilId)
         /\ UNCHANGED <<editor_mode, sketches, features, bodies, next_sketch,
                        next_feature, modified>>
    ELSE
    LET d == editor_mode.extrude_dialog
        sketch_id == d.sketch_id
        found == sketch_id \in DOMAIN sketches
        solved == IF found THEN {sketch_id} ELSE {}
        sks == SolveAll(sketches, solved)
    IN
    IF d.selected_profile_indices = {}
    THEN /\ sketches' = sks
         /\ cadResult' = CadResult(solved, NoReport, NilId)
         /\ UNCHANGED <<editor_mode, features, bodies, next_sketch, next_feature, modified>>
    ELSE IF ~found
    THEN \* no feature is created; the dialog is closed and sketch mode left
         /\ sketches' = SolveAll(sks, ExitSolved(editor_mode, sks))
         /\ editor_mode' = AssemblyMode
         /\ cadResult' = CadResult(solved \cup ExitSolved(editor_mode, sks), NoReport, NilId)
         /\ UNCHANGED <<features, bodies, next_sketch, next_feature, modified>>
    ELSE
    LET feature == extrude_with_boolean(next_feature, sketch_id, d.boolean_op, d.target_body)
        bodies_before == Cardinality(DOMAIN bodies)
        added == Append(features, feature)
        report == rebuild(added, sks)
        bodies_after == Cardinality(DOMAIN report.bodies)
    IN
    /\ next_feature <= NumFeatures
    /\ next_feature' = next_feature + 1
    /\ bodies' = report.bodies
    /\ UNCHANGED <<next_sketch, modified>>
    /\ IF bodies_after <= bodies_before
       THEN /\ editor_mode' = [editor_mode EXCEPT !.extrude_dialog.error_message =
                                                    Some(ExtrudeErrorMessage(d.boolean_op))]
            /\ features' = remove_feature(added, feature.id)
            /\ sketches' = sks
            /\ cadResult' = CadResult(solved, report, feature.id)
       ELSE /\ features' = added
            /\ sketches' = SolveAll(sks, ExitSolved(editor_mode, sks))
            /\ editor_mode' = AssemblyMode
            /\ cadResult' = CadResult(solved \cup ExitSolved(editor_mode, sks),
                                      report, feature.id)

\* handle_delete_feature
handle_delete_feature(feature_id) ==
    IF feature_id \in FeatureIdsOf(features)
    THEN LET report == rebuild(remove_feature(features, feature_id), sketches) IN
         /\ features' = remove_feature(features, feature_id)
         /\ modified' = TRUE
         /\ bodies' = report.bodies
         /\ cadResult' = CadResult({}, report, NilId)
         /\ UNCHANGED <<editor_mode, sketches, next_sketch, next_feature>>
    ELSE /\ cadResult' = CadResult({}, NoReport, NilId)
         /\ UNCHANGED <<editor_mode, sketches, features, bodies, next_sketch,
                        next_feature, modified>>

\* Feature::set_suppressed on the feature with the given id
ToggleSuppressed(fs, id) ==
    [i \in 1..Len(fs) |-> IF fs[i].id = id
                          THEN [fs[i] EXCEPT !.suppressed = ~@] ELSE fs[i]]

\* handle_toggle_feature_suppression
handle_toggle_feature_suppression(feature_id) ==
    IF feature_id \in FeatureIdsOf(features)
    THEN LET report == rebuild(ToggleSuppressed(features, feature_id), sketches) IN
         /\ features' = ToggleSuppressed(features, feature_id)
         /\ modified' = TRUE
         /\ bodies' = report.bodies
         /\ cadResult' = CadResult({}, report, NilId)
         /\ UNCHANGED <<editor_mode, sketches, next_sketch, next_feature>>
    ELSE /\ cadResult' = CadResult({}, NoReport, NilId)
         /\ UNCHANGED <<editor_mode, sketches, features, bodies, next_sketch,
                        next_feature, modified>>

\* everything of the editor state that the sketch handlers leave alone
cadFrame == <<asmVars, skVars, fkVars, pfVars, toolVars, project, cad, selection, undo_stack,
              redo_stack, max_history, lastAction, trail, scen>>

CadBeginPlaneSelection == handle_begin_plane_selection /\ UNCHANGED cadFrame
CadCancelPlaneSelection == handle_cancel_plane_selection /\ UNCHANGED cadFrame
SelectPlaneAndCreateSketch == create_and_enter /\ UNCHANGED cadFrame
CreateSketch == create_and_enter /\ UNCHANGED cadFrame
EditSketch ==
    /\ \E s \in SketchIds : handle_edit_sketch(s)
    /\ UNCHANGED cadFrame
ExitSketchMode == handle_exit_sketch_mode /\ UNCHANGED cadFrame
SelectEntity ==
    /\ \E id \in CircleIds :
          /\ editor_mode.active_sketch \in DOMAIN sketches
          /\ id \in sketches[editor_mode.active_sketch].entities
          /\ select_entity(id)
    /\ UNCHANGED cadFrame
CadAddEntity ==
    /\ \E id \in CircleIds : handle_add_entity(id)
    /\ UNCHANGED cadFrame
DeleteSelected == handle_delete_selected /\ UNCHANGED cadFrame
DeleteSketch ==
    /\ \E s \in SketchIds : handle_delete_sketch(s)
    /\ UNCHANGED cadFrame
ShowExtrudeDialog == handle_show_extrude_dialog /\ UNCHANGED cadFrame
UpdateExtrudeBooleanOp ==
    /\ \E op \in BooleanOps : handle_update_extrude_boolean_op(op)
    /\ UNCHANGED cadFrame
UpdateExtrudeTargetBody ==
    \* the dialog offers the bodies of the history, and no body
    /\ \E t \in {None} \cup {Some(b) : b \in DOMAIN bodies} :
          handle_update_extrude_target_body(t)
    /\ UNCHANGED cadFrame
ToggleExtrudeProfile ==
    /\ \E i \in 0..(NumCircles - 1) : handle_toggle_extrude_profile(i)
    /\ UNCHANGED cadFrame
CancelExtrudeDialog == handle_cancel_extrude_dialog /\ UNCHANGED cadFrame
ExecuteExtrude == handle_execute_extrude /\ UNCHANGED cadFrame
DeleteFeature ==
    /\ \E f \in FeatureIds : handle_delete_feature(f)
    /\ UNCHANGED cadFrame
ToggleFeatureSuppression ==
    /\ \E f \in FeatureIds : handle_toggle_feature_suppression(f)
    /\ UNCHANGED cadFrame

CadNext ==
    \/ CadBeginPlaneSelection
    \/ CadCancelPlaneSelection
    \/ SelectPlaneAndCreateSketch
    \/ CreateSketch
    \/ EditSketch
    \/ ExitSketchMode
    \/ SelectEntity
    \/ CadAddEntity
    \/ DeleteSelected
    \/ DeleteSketch
    \/ ShowExtrudeDialog
    \/ UpdateExtrudeBooleanOp
    \/ UpdateExtrudeTargetBody
    \/ ToggleExtrudeProfile
    \/ CancelExtrudeDialog
    \/ ExecuteExtrude
    \/ DeleteFeature
    \/ ToggleFeatureSuppression

(***************************************************************************)
(* The CAD editor with undo and redo: every SketchAction is undoable, so   *)
(* the dispatcher snapshots the project and the whole CadState (CAD data   *)
(* and editor mode) before it runs the handler; Undo and Redo put a        *)
(* snapshot back (rk-frontend/src/actions/history.rs,                      *)
(* rk-frontend/src/state/history.rs).                                      *)
(***************************************************************************)
\* CadState: the CAD data and the editor mode
CadStateNow ==
    [data |-> [sketches |-> sketches, features |-> features, bodies |-> bodies],
     editor_mode |-> editor_mode]

\* the dispatcher before an undoable action (every SketchAction is one):
\* history.save_state
SaveCadBefore ==
    LET h == save_state(undo_stack, redo_stack, max_history, project, CadStateNow,
                        "Sketch Action")
    IN /\ undo_stack' = h.undo
       /\ redo_stack' = h.redo

queuedFrame == <<asmVars, skVars, fkVars, pfVars, toolVars, project, cad, selection,
                 max_history, lastAction, trail, scen>>

\* handle_undo and handle_redo with a snapshot that only restores the CAD data
RestoreCadDataOnly(h) ==
    /\ undo_stack' = h.undo
    /\ redo_stack' = h.redo
    /\ IF h.snapshot # None
       THEN /\ project' = h.snapshot[1].project
            /\ sketches' = h.snapshot[1].cad.data.sketches
            /\ features' = h.snapshot[1].cad.data.features
            /\ bodies' = h.snapshot[1].cad.data.bodies
            /\ modified' = TRUE
            /\ selection' = NoSelection
            /\ UNCHANGED editor_mode
       ELSE UNCHANGED <<project, editor_mode, sketches, features, bodies, modified, selection>>
    /\ cadResult' = CadResult({}, NoReport, NilId)
    /\ UNCHANGED <<next_sketch, next_feature, max_history>>

\* handle_undo and handle_redo, after history.undo or history.redo returned h:
\* state.project and state.cad are replaced by the snapshot's
RestoreCad(h) ==
    /\ undo_stack' = h.undo
    /\ redo_stack' = h.redo
    /\ IF h.snapshot # None
       THEN /\ project' = h.snapshot[1].project
            /\ editor_mode' = h.snapshot[1].cad.editor_mode
            /\ sketches' = h.snapshot[1].cad.data.sketches
            /\ features' = h.snapshot[1].cad.data.features
            /\ bodies' = h.snapshot[1].cad.data.bodies
            /\ modified' = TRUE
            /\ selection' = NoSelection
       ELSE UNCHANGED <<project, editor_mode, sketches, features, bodies, modified, selection>>
    /\ cadResult' = CadResult({}, NoReport, NilId)
    /\ UNCHANGED <<next_sketch, next_feature, max_history>>

historyFrame == <<asmVars, skVars, fkVars, pfVars, toolVars, cad, lastAction, trail, scen>>

QueuedCreateSketch ==
    /\ SaveCadBefore
    /\ create_and_enter
    /\ UNCHANGED queuedFrame
QueuedEditSketch ==
    /\ SaveCadBefore
    /\ \E s \in SketchIds : handle_edit_sketch(s)
    /\ UNCHANGED queuedFrame
QueuedExitSketchMode ==
    /\ SaveCadBefore
    /\ handle_exit_sketch_mode
    /\ UNCHANGED queuedFrame
QueuedDeleteSketch ==
    /\ SaveCadBefore
    /\ \E s \in SketchIds : handle_delete_sketch(s)
    /\ UNCHANGED queuedFrame
QueuedAddEntity ==
    /\ SaveCadBefore
    /\ \E id \in CircleIds : handle_add_entity(id)
    /\ UNCHANGED queuedFrame
QueuedShowExtrudeDialog ==
    /\ SaveCadBefore
    /\ handle_show_extrude_dialog
    /\ UNCHANGED queuedFrame
QueuedExecuteExtrude ==
    /\ SaveCadBefore
    /\ handle_execute_extrude
    /\ UNCHANGED queuedFrame
CadUndo ==
    /\ RestoreCad(undo(undo_stack, redo_stack, project, CadStateNow))
    /\ UNCHANGED historyFrame
CadRedo ==
    /\ RestoreCad(redo(undo_stack, redo_stack, project, CadStateNow))
    /\ UNCHANGED historyFrame

CadUndoNext ==
    \/ QueuedCreateSketch
    \/ QueuedEditSketch
    \/ QueuedExitSketchMode
    \/ QueuedDeleteSketch
    \/ QueuedAddEntity
    \/ QueuedShowExtrudeDialog
    \/ QueuedExecuteExtrude
    \/ CadUndo
    \/ CadRedo

(***************************************************************************)
(* Sketch editing through the dispatcher: the undoable sketch actions on   *)
(* the active sketch, with the snapshot the dispatcher takes first         *)
(* (rk-frontend/src/actions/sketch/mod.rs, rk-frontend/src/state/history.rs)*)
(* The active sketch is the sketch of the Sketch section; a snapshot keeps  *)
(* the editor mode of the CAD state.                                       *)
(***************************************************************************)
\* a handler that finds no active sketch does nothing
NoSketchCall(op) ==
    /\ skResult' = [op |-> op, res |-> "NotInSketchMode", cascaded |-> 0]
    /\ UNCHANGED <<entities, constraints, construction, is_solved>>

\* SketchAction::CreateSketch: a new, empty sketch becomes the active one
DispatchCreateSketch ==
    /\ SaveBefore(CreateSketchAction)
    /\ cad' = [cad EXCEPT !.editor_mode = "Sketch"]
    /\ entities' = EmptyMap
    /\ constraints' = EmptyMap
    /\ construction' = {}
    /\ is_solved' = TRUE
    /\ skResult' = [op |-> "new", res |-> "Ok", cascaded |-> 0]
    /\ UNCHANGED <<project, modified, selection>>
    /\ scen' = ScenOff
    /\ trail' = <<>>

\* SketchAction::AddEntity
DispatchAddEntity(entity) ==
    /\ SaveBefore(AddEntityAction(entity.id))
    /\ IF cad.editor_mode = "Sketch" THEN add_entity(entity) ELSE NoSketchCall("add_entity")
    /\ UNCHANGED <<project, cad, modified, selection>>
    /\ scen' = ScenOff
    /\ trail' = <<>>

\* SketchAction::AddConstraint: the handler logs the error of add_constraint
\* and returns nothing
DispatchAddConstraint(constraint) ==
    /\ SaveBefore(AddConstraintAction(constraint.id))
    /\ IF cad.editor_mode = "Sketch"
       THEN add_constraint(constraint) ELSE NoSketchCall("add_constraint")
    /\ UNCHANGED <<project, cad, modified, selection>>
    /\ scen' = ScenOff
    /\ trail' = <<>>

DoCreateSketch ==
    /\ DispatchCreateSketch
    /\ in_progress' = None
    /\ UNCHANGED <<asmVars, cadVars, fkVars, pfVars>>
DoAddEntity ==
    /\ \E e \in NewEntities : DispatchAddEntity(e)
    /\ UNCHANGED <<asmVars, cadVars, fkVars, pfVars, toolVars>>
DoAddConstraint ==
    /\ \E c \in NewConstraints : DispatchAddConstraint(c)
    /\ UNCHANGED <<asmVars, cadVars, fkVars, pfVars, toolVars>>

SketchEditNext ==
    \/ DoCreateSketch
    \/ DoAddEntity
    \/ DoAddConstraint

(***************************************************************************)
(* The drawing tools of the sketch canvas                                  *)
(* (rk-frontend/src/panels/viewport/sketch_input.rs): a left click with    *)
(* the line, rectangle or circle tool.  The entities a tool creates get    *)
(* fresh ids.                                                              *)
(***************************************************************************)
NumToolEntities == 8
ToolEntityIds == (NumEntities + 1)..(NumEntities + NumToolEntities)

\* Uuid::new_v4, n times: ids no entity of the sketch has
FreeIds == ToolEntityIds \ DOMAIN entities
RECURSIVE FreshIds(_, _)
FreshIds(free, n) ==
    IF n = 0 THEN <<>>
    ELSE LET m == CHOOSE x \in free : \A y \in free : x <= y
         IN <<m>> \o FreshIds(free \ {m}, n - 1)

\* SketchModeState.in_progress
InProgressLine(start_point) == [tool |-> "Line", point |-> start_point]
InProgressRectangle == [tool |-> "Rectangle", point |-> NilId]
InProgressCircle(center_point) == [tool |-> "Circle", point |-> center_point]

ToolIdle == in_progress = None

\* Sketch::add_entity, called for each entity of es in turn
RECURSIVE PutAll(_, _)
PutAll(m, es) == IF es = <<>> THEN m ELSE PutAll(Put(m, Head(es).id, Head(es)), Tail(es))
add_entities(es) ==
    /\ entities' = PutAll(entities, es)
    /\ is_solved' = FALSE
    /\ skResult' = [op |-> "add_entity", res |-> "Ok", cascaded |-> 0]
    /\ UNCHANGED <<constraints, construction>>

\* handle_line_tool_click
handle_line_tool_click ==
    IF cad.editor_mode # "Sketch" THEN UNCHANGED <<skVars, in_progress>>
    ELSE IF in_progress = None
    THEN LET ids == FreshIds(FreeIds, 1) IN
         /\ add_entities(<<Point(ids[1])>>)
         /\ in_progress' = Some(InProgressLine(ids[1]))
    ELSE IF in_progress[1].tool = "Line"
    THEN LET ids == FreshIds(FreeIds, 2) IN
         /\ add_entities(<<Point(ids[1]), Line(ids[2], in_progress[1].point, ids[1])>>)
         /\ in_progress' = None
    ELSE UNCHANGED <<skVars, in_progress>>

\* handle_rectangle_tool_click
handle_rectangle_tool_click ==
    IF cad.editor_mode # "Sketch" THEN UNCHANGED <<skVars, in_progress>>
    ELSE IF in_progress = None
    THEN /\ in_progress' = Some(InProgressRectangle)
         /\ UNCHANGED skVars
    ELSE IF in_progress[1].tool = "Rectangle"
    THEN LET ids == FreshIds(FreeIds, 8) IN
         /\ add_entities(<<Point(ids[1]), Point(ids[2]), Point(ids[3]), Point(ids[4]),
                           Line(ids[5], ids[1], ids[2]), Line(ids[6], ids[2], ids[3]),
                           Line(ids[7], ids[3], ids[4]), Line(ids[8], ids[4], ids[1])>>)
         /\ in_progress' = None
    ELSE UNCHANGED <<skVars, in_progress>>

\* handle_circle_tool_click; has_radius is preview_radius > 0.001
handle_circle_tool_click(has_radius) ==
    IF cad.editor_mode # "Sketch" THEN UNCHANGED <<skVars, in_progress>>
    ELSE IF in_progress = None
    THEN LET ids == FreshIds(FreeIds, 1) IN
         /\ add_entities(<<Point(ids[1])>>)
         /\ in_progress' = Some(InProgressCircle(ids[1]))
    ELSE IF in_progress[1].tool = "Circle"
    THEN LET ids == FreshIds(FreeIds, 1) IN
         /\ IF has_radius
            THEN add_entities(<<Circle(ids[1], in_progress[1].point)>>)
            ELSE UNCHANGED skVars
         /\ in_progress' = None
    ELSE UNCHANGED <<skVars, in_progress>>

\* handle_sketch_mode_input, a primary click with the current tool
LineToolClick ==
    /\ Cardinality(FreeIds) >= 2
    /\ handle_line_tool_click
    /\ UNCHANGED <<asmVars, histVars, cadVars, fkVars, pfVars>>
RectangleToolClick ==
    /\ Cardinality(FreeIds) >= 8
    /\ handle_rectangle_tool_click
    /\ UNCHANGED <<asmVars, histVars, cadVars, fkVars, pfVars>>
CircleToolClick ==
    /\ Cardinality(FreeIds) >= 1
    /\ \E has_radius \in BOOLEAN : handle_circle_tool_click(has_radius)
    /\ UNCHANGED <<asmVars, histVars, cadVars, fkVars, pfVars>>

\* the point tool queues SketchAction::AddEntity with a new point, and the
\* dispatcher handles it
PointToolClick ==
    /\ Cardinality(FreeIds) >= 1
    /\ cad.editor_mode = "Sketch"
    /\ DispatchAddEntity(Point(FreshIds(FreeIds, 1)[1]))
    /\ UNCHANGED <<asmVars, cadVars, fkVars, pfVars, toolVars>>

SketchToolsNext ==
    \/ DoCreateSketch
    \/ PointToolClick
    \/ LineToolClick
    \/ RectangleToolClick
    \/ CircleToolClick

(***************************************************************************)
(* Forward kinematics with joint positions                                 *)
(* (rk-core/src/assembly/transforms.rs, rk-core/src/types/joint.rs)        *)
(* Every joint is prismatic along one common axis with its origin at zero, *)
(* so a transform is an offset along that axis and composing is adding.    *)
(***************************************************************************)
MaxPosition == 2
MaxMultiplier == 2
MaxOffset == 1
Positions == 0..MaxPosition

\* JointMimic::with_params
JointMimic(joint_id, multiplier, offset) ==
    [joint_id |-> joint_id, multiplier |-> multiplier, offset |-> offset]

\* JointMimic::calculate
calculate(m, source_position) == m.multiplier * source_position + m.offset

NoFk == [ran |-> FALSE, used |-> EmptyMap, order |-> <<>>]

FkIdle ==
    /\ mimic = EmptyMap
    /\ world_transform = EmptyMap
    /\ fkResult = NoFk

\* Assembly::compute_joint_transform for a prismatic joint
compute_joint_transform(position) == position

\* Assembly::update_transform_recursive_with_positions; acc carries the
\* world transforms written so far and, per joint, the position used
RECURSIVE update_transform_recursive_with_positions(_, _, _, _)
RECURSIVE UpdateChildren(_, _, _, _, _)
update_transform_recursive_with_positions(link_id, parent_transform, joint_positions, acc) ==
    LET has_joint == link_id \in DOMAIN parent /\ parent[link_id][1] \in DOMAIN joints
        joint_id == parent[link_id][1]
        position == IF joint_id \in DOMAIN joint_positions
                    THEN joint_positions[joint_id] ELSE 0
        transform == IF has_joint
                     THEN parent_transform + compute_joint_transform(position)
                     ELSE parent_transform
        written == [world |-> IF link_id \in DOMAIN links
                              THEN Put(acc.world, link_id, transform) ELSE acc.world,
                    used |-> IF has_joint THEN Put(acc.used, joint_id, position) ELSE acc.used,
                    order |-> IF has_joint THEN Append(acc.order, joint_id) ELSE acc.order]
        kids == IF link_id \in DOMAIN children THEN children[link_id] ELSE <<>>
    IN UpdateChildren(kids, 1, transform, joint_positions, written)

UpdateChildren(kids, i, transform, joint_positions, acc) ==
    IF i > Len(kids) THEN acc
    ELSE UpdateChildren(kids, i + 1, transform, joint_positions,
             update_transform_recursive_with_positions(kids[i][2], transform,
                                                       joint_positions, acc))

\* Assembly::get_root_links: the links without a parent
get_root_links == {l \in DOMAIN links : l \notin DOMAIN parent}

RECURSIVE UpdateRoots(_, _, _)
UpdateRoots(roots, joint_positions, acc) ==
    IF roots = {} THEN acc
    ELSE LET r == CHOOSE x \in roots : TRUE IN
         UpdateRoots(roots \ {r}, joint_positions,
                     update_transform_recursive_with_positions(r, 0, joint_positions, acc))

\* Assembly::update_world_transforms_with_positions
update_world_transforms_with_positions(joint_positions) ==
    LET done == UpdateRoots(get_root_links, joint_positions,
                            [world |-> world_transform, used |-> EmptyMap, order |-> <<>>])
    IN /\ world_transform' = done.world
       /\ fkResult' = [ran |-> TRUE, used |-> done.used, order |-> done.order]
       /\ UNCHANGED mimic

\* The assemblies the kinematics is run on: three links joined by two
\* joints, as a chain (L1 - L2 - L3) or as a fork (L1 - L2, L1 - L3)
FkShape(second_parent) ==
    /\ links = [l \in LinkIds |-> [name |-> 1]]
    /\ link_name_index = [n \in {1} |-> 3]
    /\ joints = [j \in {1, 2} |-> Joint(j, 1, IF j = 1 THEN 1 ELSE second_parent, j + 1)]
    /\ joint_name_index = [n \in {1} |-> 2]
    /\ parent = [c \in {2, 3} |-> IF c = 2 THEN <<1, 1>> ELSE <<2, second_parent>>]
    /\ children = IF second_parent = 1
                  THEN [p \in {1} |-> << <<1, 2>>, <<2, 3>> >>]
                  ELSE [p \in {1, 2} |-> IF p = 1 THEN << <<1, 2>> >> ELSE << <<2, 3>> >>]
    /\ root_link = None
    /\ asmResult = [op |-> "connect", res |-> "Ok"]

\* JointBuilder::mimic_with_params: a joint follows no joint or the other one
Mimics(j) ==
    {None} \cup {Some(JointMimic(k, m, o)) : k \in {1, 2} \ {j},
                                              m \in 1..MaxMultiplier, o \in 0..MaxOffset}

FkInit ==
    /\ \E second_parent \in {1, 2} : FkShape(second_parent)
    /\ \E m1 \in Mimics(1), m2 \in Mimics(2) :
          /\ (m1 = None \/ m2 = None)
          /\ mimic = [j \in {1, 2} |-> IF j = 1 THEN m1 ELSE m2]
    /\ world_transform = EmptyMap
    /\ fkResult = NoFk

\* the joint-position maps handed to the kinematics: any positions for any
\* of the joints
JointPositionMaps ==
    UNION {[S -> Positions] : S \in SUBSET JointIds}

UpdateWorldTransformsWithPositions ==
    /\ \E joint_positions \in JointPositionMaps :
          update_world_transforms_with_positions(joint_positions)
    /\ UNCHANGED <<asmVars, histVars, skVars, cadVars, pfVars, toolVars>>

FkNext == UpdateWorldTransformsWithPositions

(***************************************************************************)
(* Profile extraction (rk-cad/src/sketch/mod.rs, extract_profiles)         *)
(* The sketch holds its point entities, NumPfLines lines between them and  *)
(* at most one circle; a position is the id of its point.  order is the    *)
(* order in which the entity map hands out the lines.                      *)
(***************************************************************************)
NumPfPoints == 3
NumPfLines == 3
TraceLimit == 100

PfPoints == 1..NumPfPoints
PfLineIds == 1..NumPfLines
PfCircleId == NumPfLines + 1

\* the orders in which HashMap::values can hand out the lines
MapOrders(S) ==
    {q \in [1..Cardinality(S) -> S] : \A i, k \in 1..Cardinality(S) : q[i] = q[k] => i = k}

PfSketches ==
    {[lines |-> ls, circles |-> cs, construction |-> con, order |-> ord] :
        ls \in [PfLineIds -> [start : PfPoints, end : PfPoints]],
        cs \in SUBSET {PfCircleId},
        con \in SUBSET (PfLineIds \cup {PfCircleId}),
        ord \in MapOrders(PfLineIds)}

NoProfiles == [ran |-> FALSE, res |-> "none", profiles |-> <<>>, traces |-> <<>>]

PfIdle ==
    /\ pfSketch = [lines |-> EmptyMap, circles |-> {}, construction |-> {}, order |-> <<>>]
    /\ pfResult = NoProfiles

PfInit ==
    /\ pfSketch \in {sk \in PfSketches : sk.construction \subseteq PfLineIds \cup sk.circles}
    /\ pfResult = NoProfiles

\* Sketch::is_construction
is_construction(sk, id) == id \in sk.construction

\* a closure that leaves out the loop_entities test
ConnectedRevisiting(sk, e, used, loop_entities, current_end) ==
    /\ e \notin used
    /\ (sk.lines[e].start = current_end \/ sk.lines[e].end = current_end)

\* trace_closed_loop, the closure handed to find: a line that is neither
\* used nor in the loop and has current_end as one of its endpoints
Connected(sk, e, used, loop_entities, current_end) ==
    /\ e \notin used
    /\ e \notin loop_entities
    /\ (sk.lines[e].start = current_end \/ sk.lines[e].end = current_end)

SeqRange(q) == {q[i] : i \in 1..Len(q)}

\* Iterator::find over entities.values(): the first line in map order that
\* satisfies the closure, as an Option
FindNext(sk, used, loop_entities, current_end) ==
    LET hits == {i \in 1..Len(sk.order) :
                    Connected(sk, sk.order[i], used, SeqRange(loop_entities), current_end)}
    IN IF hits = {} THEN None
       ELSE Some(sk.order[CHOOSE i \in hits : \A k \in hits : i <= k])

\* trace_closed_loop, the for loop from iteration i on; visited holds the
\* vertex the loop started from and the successive values of current_end
RECURSIVE TraceFrom(_, _, _, _, _, _, _)
TraceFrom(sk, used, target, i, loop_entities, current_end, visited) ==
    IF i >= TraceLimit
    THEN [found |-> FALSE, entities |-> loop_entities, visited |-> visited, steps |-> i]
    ELSE IF current_end = target
    THEN [found |-> TRUE, entities |-> loop_entities, visited |-> visited, steps |-> i + 1]
    ELSE LET next == FindNext(sk, used, loop_entities, current_end) IN
         IF next = None
         THEN [found |-> FALSE, entities |-> loop_entities, visited |-> visited,
               steps |-> i + 1]
         ELSE LET l == sk.lines[next[1]] IN
              TraceFrom(sk, used, target, i + 1, Append(loop_entities, next[1]),
                        IF l.start = current_end THEN l.end ELSE l.start,
                        Append(visited, current_end))

\* Sketch::trace_closed_loop
trace_closed_loop(sk, start_id, used) ==
    TraceFrom(sk, used, sk.lines[start_id].start, 0, <<start_id>>,
              sk.lines[start_id].end, <<sk.lines[start_id].start>>)

\* Sketch::entities_to_points: the start point of every line of the loop
entities_to_points(sk, entity_ids) ==
    [i \in 1..Len(entity_ids) |-> sk.lines[entity_ids[i]].start]

\* extract_profiles, the lines it starts traces from, in map order
StartLines(sk) == SelectSeq(sk.order, LAMBDA id : ~is_construction(sk, id))

\* extract_profiles, the loop over the start lines from position i on
RECURSIVE LoopProfiles(_, _, _, _, _)
LoopProfiles(sk, starts, i, used, acc) ==
    IF i > Len(starts) THEN acc
    ELSE IF starts[i] \in used THEN LoopProfiles(sk, starts, i + 1, used, acc)
    ELSE LET t == trace_closed_loop(sk, starts[i], used)
             points == entities_to_points(sk, t.entities)
             traced == [acc EXCEPT !.traces = Append(@, [start |-> starts[i], steps |-> t.steps])]
         IN IF ~t.found THEN LoopProfiles(sk, starts, i + 1, used, traced)
            ELSE LoopProfiles(sk, starts, i + 1, used \cup SeqRange(t.entities),
                     IF Len(points) >= 3
                     THEN [traced EXCEPT !.profiles =
                              Append(@, [kind |-> "loop", entities |-> t.entities,
                                         points |-> points, visited |-> t.visited])]
                     ELSE traced)

\* extract_profiles, the circles: one profile per circle not in the
\* construction set
CircleProfiles(sk) ==
    IF PfCircleId \in sk.circles /\ ~is_construction(sk, PfCircleId)
    THEN << [kind |-> "circle", entities |-> <<PfCircleId>>, points |-> <<>>,
             visited |-> <<>>] >>
    ELSE <<>>

\* Sketch::extract_profiles
extract_profiles_of(sk) ==
    LET loops == LoopProfiles(sk, StartLines(sk), 1, {}, NoProfiles)
        all == loops.profiles \o CircleProfiles(sk)
    IN [ran |-> TRUE,
        res |-> IF all = <<>> THEN "ProfileExtractionFailed" ELSE "Ok",
        profiles |-> all,
        traces |-> loops.traces]

ExtractProfiles ==
    /\ ~pfResult.ran
    /\ pfResult' = extract_profiles_of(pfSketch)
    /\ UNCHANGED <<pfSketch, asmVars, histVars, skVars, cadVars, fkVars, toolVars>>

PfNext == ExtractProfiles

(***************************************************************************)
(* Specifications                                                          *)
(***************************************************************************)
HistIdle == HistInitWith(DefaultMaxHistory)

InitAssembly == AsmInit /\ HistIdle /\ SkInit /\ CadInit /\ FkIdle /\ PfIdle /\ ToolIdle

SpecAssembly ==
    /\ InitAssembly
    /\ [][AsmNext]_vars

InitHistory == AsmInit /\ HistInit /\ SkInit /\ CadInit /\ FkIdle /\ PfIdle /\ ToolIdle

SpecHistory ==
    /\ InitHistory
    /\ [][HistNext]_vars

InitSketch == AsmInit /\ HistIdle /\ SkInit /\ CadInit /\ FkIdle /\ PfIdle /\ ToolIdle

SpecSketch ==
    /\ InitSketch
    /\ [][SkNext]_vars

InitCad == AsmInit /\ HistIdle /\ SkInit /\ CadInit /\ FkIdle /\ PfIdle /\ ToolIdle

InitSketchEdit == AsmInit /\ HistInit /\ SkInit /\ CadInit /\ FkIdle /\ PfIdle /\ ToolIdle

InitFk == FkInit /\ HistIdle /\ SkInit /\ CadInit /\ PfIdle /\ ToolIdle

InitProfiles == AsmInit /\ HistIdle /\ SkInit /\ CadInit /\ FkIdle /\ PfInit /\ ToolIdle

SpecFk ==
    /\ InitFk
    /\ [][FkNext]_vars

SpecProfiles ==
    /\ InitProfiles
    /\ [][PfNext]_vars

SpecSketchEdit ==
    /\ InitSketchEdit
    /\ [][SketchEditNext]_vars

InitSketchTools == AsmInit /\ HistInit /\ SkInit /\ CadInit /\ FkIdle /\ PfIdle /\ ToolIdle

SpecSketchTools ==
    /\ InitSketchTools
    /\ [][SketchToolsNext]_vars

InitCadUndo == AsmInit /\ HistInit /\ SkInit /\ CadInit /\ FkIdle /\ PfIdle /\ ToolIdle

SpecCadUndo ==
    /\ InitCadUndo
    /\ [][CadUndoNext]_vars

SpecCad ==
    /\ InitCad
    /\ [][CadNext]_vars

(***************************************************************************)
(* Properties                                                              *)
(***************************************************************************)
\* The parents of the links of S, one step up the parent map
Up(S) == {parent[x][2] : x \in S \cap DOMAIN parent}

RECURSIVE UpClosure(_, _)
UpClosure(S, n) == IF n = 0 THEN S ELSE UpClosure(S \cup Up(S), n - 1)

\* Every link reached from l by one or more steps up the parent map
ProperAncestors(l) == UpClosure(Up({l}), NumLinks)

\* The positions <<p, i>> of the entries of children
ChildEdges == UNION {{<<p, i>> : i \in 1..Len(children[p])} : p \in DOMAIN children}

\* C1: after any sequence of add_link, connect, disconnect and remove_link on
\* an initially empty assembly, no link is its own ancestor along the parent
\* map (following parent upward from any link terminates).
C1_NoLinkIsItsOwnAncestor == \A l \in LinkIds : l \notin ProperAncestors(l)

\* a connect has just built a chain of three links
C1_Witness ==
    /\ asmResult = [op |-> "connect", res |-> "Ok"]
    /\ \E l \in DOMAIN links : Cardinality(ProperAncestors(l)) >= 2

\* C2: every entry (joint, child) of children[parent] has parent[child] =
\* (joint, parent); every entry of parent has exactly one matching entry in
\* children; so each child appears under at most one parent joint.
C2_ChildrenAndParentAgree ==
    /\ \A e \in ChildEdges :
          LET entry == children[e[1]][e[2]] IN
          /\ entry[2] \in DOMAIN parent
          /\ parent[entry[2]] = <<entry[1], e[1]>>
    /\ \A c \in DOMAIN parent :
          Cardinality({e \in ChildEdges :
                          /\ e[1] = parent[c][2]
                          /\ children[e[1]][e[2]] = <<parent[c][1], c>>}) = 1
    /\ \A c \in LinkIds :
          Cardinality({e \in ChildEdges : children[e[1]][e[2]][2] = c}) <= 1

\* a second parent was refused for a link while some link has two children
C2_Witness ==
    /\ asmResult = [op |-> "connect", res |-> "AlreadyHasParent"]
    /\ \E p \in DOMAIN children : Len(children[p]) >= 2

\* C3: with both links present, connect(parent, child, joint) returns
\* WouldCreateCycle exactly when child = parent or child is an ancestor of
\* parent along the parent chain.
C3_WouldCreateCycleExactlyOnAncestor ==
    \A p \in DOMAIN links, c \in DOMAIN links :
        (ConnectCheck(p, c) = "WouldCreateCycle") <=> (c = p \/ c \in ProperAncestors(p))

\* connect(L2, L0) was refused after L0 -> L1 -> L2
C3_Witness ==
    /\ asmResult = [op |-> "connect", res |-> "WouldCreateCycle"]
    /\ \E p \in DOMAIN links, c \in DOMAIN links :
          /\ c \in ProperAncestors(p)
          /\ c \notin Up({p})
          /\ ConnectCheck(p, c) = "WouldCreateCycle"

AsmErrors == {"LinkNotFound", "AlreadyHasParent", "WouldCreateCycle", "NoParent",
              "JointNotFound"}

\* C4: a connect, disconnect or remove_link call that returns an error leaves
\* links, joints, children, parent and both name indices as they were.
C4_ErrorLeavesAssemblyUnchanged ==
    [][asmResult'.res \in AsmErrors => Assembly' = Assembly]_vars

C7_StacksCappedOldestDiscarded ==
    /\ [](Len(undo_stack) <= max_history /\ Len(redo_stack) <= max_history)
    /\ [][(lastAction'.undoable /\ Len(undo_stack) >= max_history) =>
            undo_stack' = Append(Tail(undo_stack),
                                 Snapshot(project, cad, lastAction'.description))]_vars

\* a save has just been made on a full undo stack of two or more snapshots
C7_Witness ==
    /\ lastAction.undoable
    /\ lastAction.full
    /\ max_history >= 2
    /\ Len(undo_stack) = max_history

\* C8: right after an undoable action the redo stack is empty, can_redo is
\* false and a Redo changes nothing, whatever Undos came before.
C8_UndoableActionClearsRedo ==
    /\ [](lastAction.undoable => (redo_stack = <<>> /\ ~can_redo))
    /\ [][(lastAction.undoable /\ lastAction'.kind = "Redo") =>
            UNCHANGED <<project, cad, modified, selection, undo_stack, redo_stack>>]_vars

\* an undoable action was dispatched while the redo stack held snapshots
C8_Witness ==
    /\ lastAction.undoable
    /\ lastAction.hadRedo
    /\ redo_stack = <<>>

\* C9: every constraint of the sketch references only entities present in
\* the sketch, after any sequence of add_entity, remove_entity,
\* add_constraint and remove_constraint.
C9_ConstraintsReferencePresentEntities ==
    \A cid \in DOMAIN constraints :
        referenced_entities(constraints[cid]) \subseteq DOMAIN entities

\* an entity was removed together with a constraint that referenced it
C9_Witness ==
    /\ skResult.op = "remove_entity"
    /\ skResult.res = "Some"
    /\ skResult.cascaded >= 1

\* C10: every point referenced by a non-point entity is present in the
\* sketch (deleting a point deletes the entities that reference it).
C10_ReferencedPointsPresent ==
    \A id \in DOMAIN entities :
        referenced_points(entities[id]) \subseteq DOMAIN entities

\* The links below uid: those that have uid among their ancestors
Descendants(uid) == {l \in DOMAIN links : uid \in ProperAncestors(l)}

\* C16: a successful remove_link(uid) removes exactly uid and its descendants
\* from links, with every joint and edge that connects a removed link to its
\* parent; the other links, and every joint and edge between them, are left
\* as they were.
C16_RemoveLinkRemovesExactlyTheSubtree ==
    [][(asmResult'.op = "remove_link" /\ asmResult'.res = "Ok") =>
        LET removed == DOMAIN links \ DOMAIN links'
            kept == DOMAIN links'
            Stays(e) == e[2] \notin removed
            jointsOfRemoved == {parent[x][1] : x \in removed \cap DOMAIN parent}
        IN
        /\ \E uid \in DOMAIN links : removed = {uid} \cup Descendants(uid)
        /\ kept \subseteq DOMAIN links
        /\ \A l \in kept : links'[l] = links[l]
        \* the edges of the removed links are gone, the others are unchanged
        /\ DOMAIN parent' = DOMAIN parent \ removed
        /\ \A c \in DOMAIN parent' : parent'[c] = parent[c]
        /\ DOMAIN children' = DOMAIN children \ removed
        /\ \A p \in DOMAIN children' : children'[p] = SelectSeq(children[p], Stays)
        \* the joints of the removed edges are gone
        /\ DOMAIN joints' = DOMAIN joints \ jointsOfRemoved
        /\ \A j \in DOMAIN joints' : joints'[j] = joints[j]
        \* the joint of every edge that stays is still stored
        /\ \A c \in DOMAIN parent' :
              parent[c][1] \in DOMAIN joints =>
                  /\ parent[c][1] \in DOMAIN joints'
                  /\ joints'[parent[c][1]] = joints[parent[c][1]]
    ]_vars

\* C17: add_link on an assembly without links makes the inserted link the
\* root link of the assembly.
C17_FirstLinkBecomesRoot ==
    [][(DOMAIN links = {} /\ asmResult'.op = "add_link") =>
        \E id \in DOMAIN links' : root_link' = Some(id)]_vars

\* C18: the parent_link and child_link recorded in every stored joint are
\* links present in the assembly.
C18_JointsReferencePresentLinks ==
    \A j \in DOMAIN joints :
        /\ joints[j].parent_link \in DOMAIN links
        /\ joints[j].child_link \in DOMAIN links

\* The actions the spec lists as non-undoable: real-time joint-position
\* updates, pure selection changes, file loads and new-project, Undo and Redo
NonUndoableKinds == {"UpdateJointPosition", "SelectPart", "SelectCollision",
                     "SetEditingJoint", "LoadProject", "LoadProjectBytes", "NewProject",
                     "Undo", "Redo"}

\* s is an initial part of t
IsPrefix(s, t) == Len(s) <= Len(t) /\ SubSeq(t, 1, Len(s)) = s

AllowedModeChanges ==
    {<<"Assembly", "PlaneSelection">>, <<"PlaneSelection", "Sketch">>,
     <<"PlaneSelection", "Assembly">>, <<"Sketch", "Assembly">>}

\* C11: whenever a step changes the editor mode, the change is one of
\* Assembly -> PlaneSelection, PlaneSelection -> Sketch,
\* PlaneSelection -> Assembly, Sketch -> Assembly.
C11_OnlyTheFourModeChanges ==
    [][editor_mode'.kind # editor_mode.kind =>
          <<editor_mode.kind, editor_mode'.kind>> \in AllowedModeChanges]_vars

\* C12: a step that takes the editor out of Sketch mode applies solve() to
\* the sketch that was active.
C12_LeavingSketchModeSolves ==
    [][(/\ editor_mode.kind = "Sketch"
        /\ editor_mode'.kind # "Sketch"
        /\ editor_mode.active_sketch \in DOMAIN sketches) =>
          editor_mode.active_sketch \in cadResult'.solved]_vars

\* The step is an ExecuteExtrude that created a feature (Sketch mode, at
\* least one selected profile, the sketch of the dialog present)
ExtrudeCreatedFeature ==
    /\ editor_mode.kind = "Sketch"
    /\ editor_mode.extrude_dialog.selected_profile_indices # {}
    /\ cadResult'.new_feature # NilId

\* C13: when ExecuteExtrude runs in Sketch mode with a selected profile and
\* the new feature produces a body in the rebuild, then afterwards the
\* dialog is closed, the mode is Assembly and the feature is in the history.
C13_SuccessfulExtrudeClosesAndKeepsFeature ==
    [][(/\ ExtrudeCreatedFeature
        /\ cadResult'.new_feature \in cadResult'.report.succeeded) =>
          /\ ~editor_mode'.extrude_dialog.open
          /\ editor_mode'.kind = "Assembly"
          /\ cadResult'.new_feature \in FeatureIdsOf(features')]_vars

\* The bodies whose source feature is in the history
BodiesOfFeatures(fs, bs) ==
    {b \in DOMAIN bs : \E f \in FeatureIdsOf(fs) : bs[b].source_feature = Some(f)}

\* C14: with the Truck kernel, an ExecuteExtrude with boolean_op = Cut and
\* an existing target body leaves the target body unchanged, removes the
\* new feature from the history, sets the dialog's error message, and
\* leaves the earlier features and their bodies in place.
C14_CutFailsCleanly ==
    [][(/\ ExtrudeCreatedFeature
        /\ editor_mode.extrude_dialog.boolean_op = "Cut"
        /\ editor_mode.extrude_dialog.target_body # None
        /\ editor_mode.extrude_dialog.target_body[1] \in DOMAIN bodies) =>
          LET BodyA == editor_mode.extrude_dialog.target_body[1] IN
          /\ BodyA \in DOMAIN bodies' /\ bodies'[BodyA] = bodies[BodyA]
          /\ cadResult'.new_feature \notin FeatureIdsOf(features')
          /\ editor_mode'.extrude_dialog.error_message # None
          /\ features' = features
          /\ \A b \in BodiesOfFeatures(features, bodies) :
                b \in DOMAIN bodies' /\ bodies'[b] = bodies[b]]_vars

\* The features of a sequence that are not suppressed and execute, each
\* against the bodies of the features before it that executed
RECURSIVE Executes(_, _, _, _)
Executes(fs, sks, i, bs) ==
    IF i > Len(fs) THEN {}
    ELSE IF ~fs[i].suppressed /\ execute(fs[i], sks, bs) = "Ok"
         THEN {fs[i].id} \cup Executes(fs, sks, i + 1, Put(bs, fs[i].id, BodyOf(fs[i])))
         ELSE Executes(fs, sks, i + 1, bs)

\* C15: when a handler has run a rebuild, every unsuppressed feature of the
\* rebuilt sequence whose execution succeeds has a body in the body map
\* whose source feature is that feature, whatever failed before it; every
\* feature is either suppressed, succeeded or failed, none is left
\* unprocessed.
C15_RebuildBuildsEverySucceedingFeature ==
    cadResult.report.ran =>
        LET rep == cadResult.report IN
        /\ \A f \in Executes(rep.features, sketches, 1, EmptyMap) :
              \E b \in DOMAIN bodies : bodies[b].source_feature = Some(f)
        /\ \A i \in 1..Len(rep.features) :
              \/ rep.features[i].suppressed
              \/ rep.features[i].id \in rep.succeeded \cup rep.failed

\* a rebuild in which the first feature failed and a later one has a body
C15_Witness ==
    /\ cadResult.report.ran
    /\ Len(cadResult.report.features) >= 2
    /\ cadResult.report.features[1].id \in cadResult.report.failed
    /\ \E i \in 2..Len(cadResult.report.features) :
          /\ cadResult.report.features[i].id \in cadResult.report.succeeded
          /\ \E b \in DOMAIN bodies :
                bodies[b].source_feature = Some(cadResult.report.features[i].id)

\* C20: an AddConstraint action naming an entity that is not in the active
\* sketch is rejected with EntityNotFound, leaves the sketch as it was, and
\* leaves no snapshot for it on the undo stack.
C20_RejectedConstraintLeavesNoSnapshot ==
    [][(lastAction'.kind = "AddConstraint" /\ skResult'.res = "EntityNotFound") =>
          /\ UNCHANGED <<entities, constraints, construction, is_solved>>
          /\ undo_stack' = undo_stack]_vars

\* The joint ids recorded in the parent map and in the children lists
ParentEdgeJoints == {parent[c][1] : c \in DOMAIN parent}

\* C28: the joint ids recorded in the edges are exactly the keys of the
\* joints map, no joint id is on two edges, and no disconnect has returned
\* JointNotFound.
C28_EdgesAndJointsAgree ==
    /\ ParentEdgeJoints = DOMAIN joints
    /\ \A c1 \in DOMAIN parent, c2 \in DOMAIN parent :
          parent[c1][1] = parent[c2][1] => c1 = c2
    /\ \A p \in DOMAIN children : \A i \in 1..Len(children[p]) :
          /\ children[p][i][1] \in DOMAIN joints
          /\ children[p][i][2] \in DOMAIN parent
          /\ parent[children[p][i][2]] = <<children[p][i][1], p>>
    /\ asmResult.res # "JointNotFound"

\* C30: every link is indexed under its name, every entry of the link name
\* index points to a present link of that name, and the same for joints
\* and the joint name index.
C30_NameIndicesAgree ==
    /\ \A l \in DOMAIN links :
          /\ links[l].name \in DOMAIN link_name_index
          /\ link_name_index[links[l].name] = l
    /\ \A n \in DOMAIN link_name_index :
          /\ link_name_index[n] \in DOMAIN links
          /\ links[link_name_index[n]].name = n
    /\ \A j \in DOMAIN joints :
          /\ joints[j].name \in DOMAIN joint_name_index
          /\ joint_name_index[joints[j].name] = j
    /\ \A n \in DOMAIN joint_name_index :
          /\ joint_name_index[n] \in DOMAIN joints
          /\ joints[joint_name_index[n]].name = n

\* The place of a joint in the order the kinematics evaluated the joints
PlaceOf(j) == CHOOSE i \in 1..Len(fkResult.order) : fkResult.order[i] = j

\* C24: after forward kinematics with a joint-position map, every joint
\* with a mimic specification was evaluated after the joint it follows,
\* with the position multiplier * q_source + offset, q_source being the
\* position used for that joint.
C24_MimicJointsFollowTheirSource ==
    fkResult.ran =>
        \A j \in DOMAIN joints : mimic[j] # None =>
            LET m == mimic[j][1] IN
            /\ j \in DOMAIN fkResult.used /\ m.joint_id \in DOMAIN fkResult.used
            /\ PlaceOf(m.joint_id) < PlaceOf(j)
            /\ fkResult.used[j] = calculate(m, fkResult.used[m.joint_id])

\* C22: no profile returned by extract_profiles contains a line or circle
\* of the construction set, whatever the order of the entity map.
C22_ProfilesHoldNoConstructionEntity ==
    pfResult.ran =>
        \A i \in 1..Len(pfResult.profiles) :
            \A e \in SeqRange(pfResult.profiles[i].entities) :
                ~is_construction(pfSketch, e)

LoopProfileIndices == {i \in 1..Len(pfResult.profiles) : pfResult.profiles[i].kind = "loop"}

Distinct(q) == \A i, k \in 1..Len(q) : q[i] = q[k] => i = k

\* C27: for every returned closed loop of n >= 3 lines outside the
\* construction set that passes through n distinct vertices, the wire has
\* exactly n points, and they are those vertices in the order the trace
\* walked through them, whichever endpoint a line stores as start.
C27_WireIsTheLoopVertices ==
    pfResult.ran =>
        \A i \in LoopProfileIndices :
            LET pr == pfResult.profiles[i] IN
            (/\ Len(pr.entities) >= 3
             /\ \A e \in SeqRange(pr.entities) : ~is_construction(pfSketch, e)
             /\ Distinct(pr.visited))
            => (Len(pr.points) = Len(pr.entities) /\ pr.points = pr.visited)

Degenerate(id) == pfSketch.lines[id].start = pfSketch.lines[id].end

\* C25 as stated: every trace takes at most TraceLimit steps, and no
\* returned profile contains a line whose two endpoints are the same point.
C25_DegenerateLineYieldsNoProfile ==
    pfResult.ran =>
        /\ \A t \in 1..Len(pfResult.traces) : pfResult.traces[t].steps <= TraceLimit
        /\ \A i \in LoopProfileIndices :
               \A e \in SeqRange(pfResult.profiles[i].entities) : ~Degenerate(e)

\* C25 amended: extract_profiles returns; every trace takes at most
\* TraceLimit steps and at most one step per line of the sketch plus one;
\* a trace that starts at a line whose two endpoints are the same point
\* ends after one step and no profile starts at such a line.
C25_TracesEndAndDegenerateStartYieldsNoProfile ==
    pfResult.ran =>
        /\ pfResult.res \in {"Ok", "ProfileExtractionFailed"}
        /\ \A t \in 1..Len(pfResult.traces) :
               /\ pfResult.traces[t].steps <= TraceLimit
               /\ pfResult.traces[t].steps <= NumPfLines + 1
               /\ Degenerate(pfResult.traces[t].start) => pfResult.traces[t].steps = 1
        /\ \A i \in LoopProfileIndices : ~Degenerate(pfResult.profiles[i].entities[1])

C25_Witness ==
    /\ pfResult.ran
    /\ \E t \in 1..Len(pfResult.traces) : Degenerate(pfResult.traces[t].start)
    /\ \E t \in 1..Len(pfResult.traces) :
           /\ ~Degenerate(pfResult.traces[t].start)
           /\ pfResult.traces[t].steps > 1

\* C21: every step that changes the project, the editor mode or the entities
\* or constraints of the sketch is the handling of a queued action: the
\* dispatcher has pushed the snapshot of the state before it on the undo
\* stack in the same step.
C21_EveryMutationIsADispatchedAction ==
    [][(<<project, cad, entities, constraints>>' # <<project, cad, entities, constraints>>)
        => /\ lastAction'.undoable
           /\ undo_stack' = save_state(undo_stack, redo_stack, max_history, project, cad,
                                        lastAction'.description).undo
           /\ redo_stack' = <<>>]_vars

\* C29: whenever the editor is in Sketch mode, the active sketch is one of
\* the sketches of the CAD data.
C29_ActiveSketchExists ==
    editor_mode.kind = "Sketch" => editor_mode.active_sketch \in DOMAIN sketches

\* an Undo has brought back Sketch mode on a sketch that DeleteSketch had
\* removed: the state that Redo would restore is in Assembly mode without it
C29_Witness ==
    /\ editor_mode.kind = "Sketch"
    /\ editor_mode.active_sketch \in DOMAIN sketches
    /\ redo_stack # <<>>
    /\ Last(redo_stack).cad.editor_mode.kind = "Assembly"
    /\ editor_mode.active_sketch \notin DOMAIN Last(redo_stack).cad.data.sketches
    /\ features # <<>>

\* The bodies that exist when feature i of a rebuilt sequence is executed
BodiesBefore(fs, sks, i) == rebuild(SubSeq(fs, 1, i - 1), sks).bodies

\* C23: in a rebuild, an unsuppressed Extrude whose boolean_op is not New
\* and whose target body is missing (None, or an id not among the bodies
\* that exist when it is executed) is recorded as failed and gets no body.
C23_BooleanWithoutTargetFails ==
    cadResult.report.ran =>
        LET rep == cadResult.report IN
        \A i \in 1..Len(rep.features) :
            LET f == rep.features[i] IN
            (/\ ~f.suppressed
             /\ f.boolean_op # "New"
             /\ \/ f.target_body = None
                \/ f.target_body[1] \notin DOMAIN BodiesBefore(rep.features, sketches, i))
            => /\ f.id \in rep.failed
               /\ \A b \in DOMAIN rep.bodies : rep.bodies[b].source_feature # Some(f.id)

\* C26: an ExecuteExtrude that created a feature removes it from the
\* history and keeps the dialog open with an error message exactly when
\* that feature is not among the features that produced a body in the
\* rebuild.
C26_RemovedIffNewFeatureFailed ==
    [][ExtrudeCreatedFeature =>
          ((/\ cadResult'.new_feature \notin FeatureIdsOf(features')
            /\ editor_mode'.extrude_dialog.open
            /\ editor_mode'.extrude_dialog.error_message # None)
           <=> cadResult'.new_feature \notin cadResult'.report.succeeded)]_vars

====
